---- MODULE Spec2Model ----
(***************************************************************************)
(* The HTTP handler upscale_video of the video pipeline, in its two        *)
(* variants (src/main.py and src/improved_main.py): request validation,    *)
(* scratch-file reservation, the bounded streaming download, the two       *)
(* uploads, the transform, the notification stub, the translation of       *)
(* exceptions to a response, and the cleanup of the scratch files.         *)
(*                                                                         *)
(* Strings whose content the code inspects (URLs, file names, the          *)
(* content-length header, JSON strings) are sequences of one-character     *)
(* strings.  Sizes are counted in units scaled down from bytes: the code   *)
(* only compares sums of chunk lengths with MAX_FILE_SIZE.                 *)
(***************************************************************************)
EXTENDS Integers, Sequences, FiniteSets, TLC

(* ------------------------------ bounds --------------------------------- *)

\* The size cap and the chunk size of the download, scaled down.
MAX_FILE_SIZE == 4
CHUNK_SIZE == 2
\* Longest URL tail (the part after the scheme prefix) of a request.
MaxTail == 3
\* Longest content-length header value the server sends.
MaxHeaderLen == 2
\* Largest output the external model runner of main.py writes.
MaxOut == 1

(* ------------------------------ strings -------------------------------- *)

SeqsUpTo(S, n) == UNION {[1..k -> S] : k \in 0..n}

HTTP == <<"h", "t", "t", "p", ":", "/", "/">>
HTTPS == <<"h", "t", "t", "p", "s", ":", "/", "/">>
FTP == <<"f", "t", "p", ":", "/", "/">>
SOURCE_URL == <<"s", "o", "u", "r", "c", "e", "U", "r", "l">>
OTHER_KEY == <<"x">>
VIDEO_MP4 == <<"v", "i", "d", "e", "o", ".", "m", "p", "4">>
UPSCALED_TAG == <<"_upscaled">>
RAW_BUCKET_NAME == "vflow-pipeline-to-upscale"
UPSCALED_BUCKET_NAME == "vflow-pipeline-upscaled"

\* str.startswith(p)
StartsWith(s, p) == Len(s) >= Len(p) /\ SubSeq(s, 1, Len(p)) = p

\* str.startswith(("http://", "https://"))
StartsWithHttp(s) == StartsWith(s, HTTP) \/ StartsWith(s, HTTPS)

\* needle in hay, for two strings
Substring(needle, hay) ==
    \E i \in 1..(Len(hay) + 1) :
        /\ i + Len(needle) - 1 <= Len(hay)
        /\ SubSeq(hay, i, i + Len(needle) - 1) = needle

\* s.rfind(c), 1-based, 0 when c does not occur
RFind(s, c) ==
    IF \E i \in 1..Len(s) : s[i] = c
    THEN CHOOSE i \in 1..Len(s) : s[i] = c /\ \A j \in (i + 1)..Len(s) : s[j] # c
    ELSE 0

\* The components of a path string between its slashes, empty ones included.
RECURSIVE Split(_)
Split(s) ==
    IF \A i \in 1..Len(s) : s[i] # "/"
    THEN <<s>>
    ELSE LET k == CHOOSE i \in 1..Len(s) : s[i] = "/" /\ \A j \in 1..(i - 1) : s[j] # "/"
         IN  <<SubSeq(s, 1, k - 1)>> \o Split(SubSeq(s, k + 1, Len(s)))

\* pathlib's parts of a relative path: empty and "." components are dropped.
PathParts(s) == SelectSeq(Split(s), LAMBDA c : c # <<>> /\ c # <<".">>)

\* Path(s).name
PathName(s) ==
    LET parts == PathParts(s)
    IN  IF parts = <<>> THEN <<>> ELSE parts[Len(parts)]

\* Path(name).suffix for a single component
PathSuffix(name) ==
    LET j == RFind(name, ".")
    IN  IF 1 < j /\ j < Len(name) THEN SubSeq(name, j, Len(name)) ELSE <<>>

\* Path(name).stem for a single component
PathStem(name) ==
    LET j == RFind(name, ".")
    IN  IF 1 < j /\ j < Len(name) THEN SubSeq(name, 1, j - 1) ELSE name

\* Path(source_url).name or "video.mp4"
OriginalFilename(source_url) ==
    IF PathName(source_url) = <<>> THEN VIDEO_MP4 ELSE PathName(source_url)

\* f"{base_name}_upscaled{extension}"
UpscaledFilename(original) ==
    PathStem(original) \o UPSCALED_TAG \o PathSuffix(original)

\* f"gs://{bucket_name}/{blob_name}"
Locator(bucket_name, blob_name) == [bucket |-> bucket_name, name |-> blob_name]

NoLocator == Locator("", <<>>)

(* --------------------------- the request ------------------------------- *)

\* A JSON value that is the value of a key: its type, and its text when it
\* is a string.
Scalar(t, s) == [t |-> t, s |-> s]

\* The request body: "bad" is a body json cannot parse; s is the text of a
\* string, items the elements of a list, keys and val the keys of an object
\* and the value of its sourceUrl key.
Json(t, n, s, items, keys, val) ==
    [t |-> t, n |-> n, s |-> s, items |-> items, keys |-> keys, val |-> val]

NullScalar == Scalar("null", <<>>)

TailAlphabet == {"a", ".", "/"}

UrlStrings ==
    {p \o t : p \in {HTTP, HTTPS, FTP, <<>>}, t \in SeqsUpTo(TailAlphabet, MaxTail)}

FieldValues ==
    {Scalar(t, <<>>) : t \in {"null", "true", "false", "zero", "num", "list", "obj"}}
        \cup {Scalar("str", u) : u \in UrlStrings}

Bodies ==
    {Json(t, 0, <<>>, <<>>, {}, NullScalar) : t \in {"bad", "null", "true", "false"}}
        \cup {Json("num", n, <<>>, <<>>, {}, NullScalar) : n \in {0, 5}}
        \cup {Json("str", 0, s, <<>>, {}, NullScalar) :
                 s \in {<<>>, <<"a">>, SOURCE_URL, <<"a">> \o SOURCE_URL}}
        \cup {Json("list", 0, <<>>, l, {}, NullScalar) :
                 l \in {<<>>, <<OTHER_KEY>>, <<SOURCE_URL>>}}
        \cup {Json("obj", 0, <<>>, <<>>, k, NullScalar) : k \in {{}, {OTHER_KEY}}}
        \cup {Json("obj", 0, <<>>, <<>>, k, v) :
                 k \in {{SOURCE_URL}, {SOURCE_URL, OTHER_KEY}}, v \in FieldValues}

Requests == [is_json : BOOLEAN, body : Bodies]

\* bool(request_json)
Truthy(j) ==
    CASE j.t \in {"null", "false"} -> FALSE
      [] j.t = "true" -> TRUE
      [] j.t = "num" -> j.n # 0
      [] j.t = "str" -> j.s # <<>>
      [] j.t = "list" -> j.items # <<>>
      [] j.t = "obj" -> j.keys # {}
      [] OTHER -> FALSE

\* "sourceUrl" in request_json, for the types that support it
Contains(j) ==
    CASE j.t = "str" -> Substring(SOURCE_URL, j.s)
      [] j.t = "list" -> \E i \in 1..Len(j.items) : j.items[i] = SOURCE_URL
      [] j.t = "obj" -> SOURCE_URL \in j.keys
      [] OTHER -> FALSE

(* ----------------------------- exceptions ------------------------------ *)

Exc(cls, msg) == [cls |-> cls, msg |-> msg]

NoExc == Exc("none", "")

\* validate_request: the exception it raises, NoExc when it returns.
validate_request(request) ==
    LET j == request.body
    IN  IF ~request.is_json
        THEN Exc("ValueError", "Request must be JSON")
        ELSE IF j.t = "bad"
        THEN Exc("BadRequest", "Failed to decode JSON object")
        ELSE IF ~Truthy(j)
        THEN Exc("ValueError", "Missing required 'sourceUrl' in request body")
        ELSE IF j.t \in {"true", "num"}
        THEN Exc("TypeError", "argument is not iterable")
        ELSE IF ~Contains(j)
        THEN Exc("ValueError", "Missing required 'sourceUrl' in request body")
        ELSE IF j.t \in {"str", "list"}
        THEN Exc("TypeError", "indices must be integers")
        ELSE IF j.val.t # "str"
        THEN Exc("AttributeError", "object has no attribute 'startswith'")
        ELSE IF ~StartsWithHttp(j.val.s)
        THEN Exc("ValueError", "Invalid URL format")
        ELSE NoExc

(* ------------------------- download_video ------------------------------ *)

DigitChars == {"0", "1", "2", "3", "4", "5", "6", "7", "8", "9"}

DigitVal(c) ==
    CASE c = "0" -> 0 [] c = "1" -> 1 [] c = "2" -> 2 [] c = "3" -> 3
      [] c = "4" -> 4 [] c = "5" -> 5 [] c = "6" -> 6 [] c = "7" -> 7
      [] c = "8" -> 8 [] c = "9" -> 9

\* Whether int(s) returns, for the header values the server sends here.
IsNumeric(s) == s # <<>> /\ \A i \in 1..Len(s) : s[i] \in DigitChars

\* int(s) of a numeric s
RECURSIVE ParseInt(_)
ParseInt(s) ==
    IF s = <<>> THEN 0
    ELSE 10 * ParseInt(SubSeq(s, 1, Len(s) - 1)) + DigitVal(s[Len(s)])

\* response.headers.get('content-length'): absent, or a string
Header(present, s) == [present |-> present, s |-> s]

NoHeader == Header(FALSE, <<>>)

HeaderAlphabet == {"1", "9", "x"}

Headers == {NoHeader} \cup {Header(TRUE, s) : s \in SeqsUpTo(HeaderAlphabet, MaxHeaderLen)}

\* A declared-length check that only warns about a length over the cap.
CheckDeclaredLength_Warns(content_length) ==
    IF ~content_length.present \/ content_length.s = <<>>
    THEN NoExc
    ELSE IF ~IsNumeric(content_length.s)
    THEN Exc("ValueError", "invalid literal for int() with base 10")
    ELSE NoExc

\* if content_length and int(content_length) > MAX_FILE_SIZE: raise ...
\* The exception the declared-length check raises, NoExc when it passes.
CheckDeclaredLength(content_length) ==
    IF ~content_length.present \/ content_length.s = <<>>
    THEN NoExc
    ELSE IF ~IsNumeric(content_length.s)
    THEN Exc("ValueError", "invalid literal for int() with base 10")
    ELSE IF ParseInt(content_length.s) > MAX_FILE_SIZE
    THEN Exc("VideoProcessingError", "File too large")
    ELSE NoExc

\* A running-total check that allows one chunk more than the cap.
CheckDownloadedSize_Slack(downloaded_size) ==
    IF downloaded_size > MAX_FILE_SIZE + CHUNK_SIZE
    THEN Exc("VideoProcessingError", "File size exceeds limit during download")
    ELSE NoExc

\* if downloaded_size > MAX_FILE_SIZE: raise ...
CheckDownloadedSize(downloaded_size) ==
    IF downloaded_size > MAX_FILE_SIZE
    THEN Exc("VideoProcessingError", "File size exceeds limit during download")
    ELSE NoExc

\* except requests.exceptions.RequestException as e: raise VideoProcessingError
DownloadFailed == Exc("VideoProcessingError", "Failed to download video")

\* except Exception as e: raise VideoProcessingError   (upload_to_gcs)
UploadFailed == Exc("VideoProcessingError", "Failed to upload to GCS")

(* ---------------------------- the response ----------------------------- *)

Response(status, kind, prefix, text, original_file, upscaled_file, filename) ==
    [status |-> status, kind |-> kind, prefix |-> prefix, text |-> text,
     original_file |-> original_file, upscaled_file |-> upscaled_file,
     filename |-> filename]

NoResponse == Response(0, "", "", "", NoLocator, NoLocator, <<>>)

ErrorResponse(status, prefix, text) ==
    Response(status, "error", prefix, text, NoLocator, NoLocator, <<>>)

SuccessResponse(original_file, upscaled_file, filename) ==
    Response(200, "success", "", "Video upscaling completed successfully",
             original_file, upscaled_file, filename)

\* A handler without the last clause, except Exception.
Caught_NoCatchAll(cls) == cls \in {"ValueError", "VideoProcessingError"}

\* Whether one of the handler's except clauses takes an exception of class
\* cls; every class raised here derives from Exception.
Caught(cls) ==
    cls \in {"ValueError", "VideoProcessingError", "BadRequest", "TypeError",
             "AttributeError", "OSError", "RuntimeError"}

\* A handler of improved_main.py whose VideoProcessingError clause answers 400.
HandleException_Same(v, e) ==
    IF e.cls = "ValueError"
    THEN ErrorResponse(400, IF v = "main" THEN "" ELSE "Invalid request: ", e.msg)
    ELSE IF e.cls = "VideoProcessingError"
    THEN ErrorResponse(400, IF v = "main" THEN "" ELSE "Processing failed: ", e.msg)
    ELSE ErrorResponse(500, "", "Internal server error")

\* The except clauses of the handler, in order.
HandleException(v, e) ==
    IF v = "main"
    THEN IF e.cls \in {"ValueError", "VideoProcessingError"}
         THEN ErrorResponse(400, "", e.msg)
         ELSE ErrorResponse(500, "", "Internal server error")
    ELSE IF e.cls = "ValueError"
         THEN ErrorResponse(400, "Invalid request: ", e.msg)
         ELSE IF e.cls = "VideoProcessingError"
         THEN ErrorResponse(500, "Processing failed: ", e.msg)
         ELSE ErrorResponse(500, "", "Internal server error")

(* ------------------------------- state --------------------------------- *)

VARIABLES
    variant,            \* "main" (src/main.py) or "improved" (src/improved_main.py)
    request,            \* the request of this invocation
    pc,                 \* the handler's position
    exc,                \* the exception in flight, NoExc when none
    temp_file_path,     \* "None", or the scratch path of the download
    upscaled_file_path, \* "None", or the scratch path of the transform output
    exists,             \* local filesystem: whether each scratch path exists
    size,               \* local filesystem: the size of each scratch file
    original_filename,
    upscaled_filename,
    content_length,     \* download_video's local: the declared length
    downloaded_size,    \* download_video's local: the running total
    raw_gcs_url,
    upscaled_gcs_url,
    blobs,              \* the blobs uploaded to the two buckets
    net_calls,          \* requests.get calls made
    storage_calls,      \* upload_to_gcs calls made
    stages,             \* the stages started, in order
    completed,          \* the stages that returned normally, in order
    unlink_failed,      \* the scratch paths whose os.unlink raised OSError
    response,           \* the handler's return value, NoResponse before
    responses,          \* return statements executed
    propagated          \* an exception left the handler

vars ==
    <<variant, request, pc, exc, temp_file_path, upscaled_file_path, exists,
      size, original_filename, upscaled_filename, content_length,
      downloaded_size, raw_gcs_url, upscaled_gcs_url, blobs, net_calls,
      storage_calls, stages, completed, unlink_failed, response, responses,
      propagated>>

Paths == {"tmp_a", "tmp_b"}

Variants == {"main", "improved"}

Order ==
    <<"validate", "download", "upload_raw", "transform", "upload_result", "notify">>

Init ==
    /\ variant \in Variants
    /\ request \in Requests
    /\ pc = "validate"
    /\ exc = NoExc
    /\ temp_file_path = "None"
    /\ upscaled_file_path = "None"
    /\ exists = [p \in Paths |-> FALSE]
    /\ size = [p \in Paths |-> 0]
    /\ original_filename = <<>>
    /\ upscaled_filename = <<>>
    /\ content_length = NoHeader
    /\ downloaded_size = 0
    /\ raw_gcs_url = NoLocator
    /\ upscaled_gcs_url = NoLocator
    /\ blobs = {}
    /\ net_calls = 0
    /\ storage_calls = 0
    /\ stages = <<>>
    /\ completed = <<>>
    /\ unlink_failed = {}
    /\ response = NoResponse
    /\ responses = 0
    /\ propagated = FALSE

\* A try block that goes on after a call that raised.
Goto_Swallow(e, next) == next

\* Where the try block goes after a call: on, or to the except clauses.
Goto(e, next) == IF e.cls = "none" THEN next ELSE "except"

\* A stage returned: it completed unless it raised.
Done(e, stage) == IF e.cls = "none" THEN Append(completed, stage) ELSE completed

(* ------------------------------ actions -------------------------------- *)

\* request_json = validate_request(request)
Validate ==
    /\ pc = "validate"
    /\ stages' = Append(stages, "validate")
    /\ exc' = validate_request(request)
    /\ completed' = Done(exc', "validate")
    /\ pc' = Goto(exc', "naming")
    /\ UNCHANGED <<variant, request, temp_file_path, upscaled_file_path, exists,
                   size, original_filename, upscaled_filename, content_length,
                   downloaded_size, raw_gcs_url, upscaled_gcs_url, blobs,
                   net_calls, storage_calls, unlink_failed, response, responses,
                   propagated>>

\* source_url, original_filename, base_name, extension, upscaled_filename
Naming ==
    /\ pc = "naming"
    /\ original_filename' = OriginalFilename(request.body.val.s)
    /\ upscaled_filename' = UpscaledFilename(original_filename')
    /\ pc' = "mktemp1"
    /\ UNCHANGED <<variant, request, exc, temp_file_path, upscaled_file_path,
                   exists, size, content_length, downloaded_size, raw_gcs_url,
                   upscaled_gcs_url, blobs, net_calls, storage_calls, stages,
                   completed, unlink_failed, response, responses, propagated>>

\* with tempfile.NamedTemporaryFile(delete=False, ...) as temp_file
MkTemp1 ==
    /\ pc = "mktemp1"
    /\ \/ /\ temp_file_path' = "tmp_a"
          /\ exists' = [exists EXCEPT !["tmp_a"] = TRUE]
          /\ size' = [size EXCEPT !["tmp_a"] = 0]
          /\ pc' = "mktemp2"
          /\ exc' = exc
       \/ /\ exc' = Exc("OSError", "cannot create temporary file")
          /\ pc' = "except"
          /\ UNCHANGED <<temp_file_path, exists, size>>
    /\ UNCHANGED <<variant, request, upscaled_file_path, original_filename,
                   upscaled_filename, content_length, downloaded_size,
                   raw_gcs_url, upscaled_gcs_url, blobs, net_calls,
                   storage_calls, stages, completed, unlink_failed, response,
                   responses, propagated>>

\* with tempfile.NamedTemporaryFile(delete=False, ...) as upscaled_file
MkTemp2 ==
    /\ pc = "mktemp2"
    /\ \/ /\ upscaled_file_path' = "tmp_b"
          /\ exists' = [exists EXCEPT !["tmp_b"] = TRUE]
          /\ size' = [size EXCEPT !["tmp_b"] = 0]
          /\ pc' = "dl_get"
          /\ exc' = exc
       \/ /\ exc' = Exc("OSError", "cannot create temporary file")
          /\ pc' = "except"
          /\ UNCHANGED <<upscaled_file_path, exists, size>>
    /\ UNCHANGED <<variant, request, temp_file_path, original_filename,
                   upscaled_filename, content_length, downloaded_size,
                   raw_gcs_url, upscaled_gcs_url, blobs, net_calls,
                   storage_calls, stages, completed, unlink_failed, response,
                   responses, propagated>>

\* requests.get(...), response.raise_for_status(), headers.get('content-length')
DownloadGet ==
    /\ pc = "dl_get"
    /\ stages' = Append(stages, "download")
    /\ net_calls' = net_calls + 1
    /\ \/ /\ exc' = DownloadFailed
          /\ pc' = "except"
          /\ UNCHANGED content_length
       \/ /\ content_length' \in Headers
          /\ pc' = "dl_headers"
          /\ exc' = exc
    /\ UNCHANGED <<variant, request, temp_file_path, upscaled_file_path, exists,
                   size, original_filename, upscaled_filename, downloaded_size,
                   raw_gcs_url, upscaled_gcs_url, blobs, storage_calls,
                   completed, unlink_failed, response, responses, propagated>>

\* the declared-length check, then the content-type warning
DownloadCheckLength ==
    /\ pc = "dl_headers"
    /\ exc' = CheckDeclaredLength(content_length)
    /\ pc' = Goto(exc', "dl_open")
    /\ UNCHANGED <<variant, request, temp_file_path, upscaled_file_path, exists,
                   size, original_filename, upscaled_filename, content_length,
                   downloaded_size, raw_gcs_url, upscaled_gcs_url, blobs,
                   net_calls, storage_calls, stages, completed, unlink_failed,
                   response, responses, propagated>>

\* downloaded_size = 0; with open(temp_file_path, 'wb') as f
DownloadOpen ==
    /\ pc = "dl_open"
    /\ downloaded_size' = 0
    /\ \/ /\ exists' = [exists EXCEPT ![temp_file_path] = TRUE]
          /\ size' = [size EXCEPT ![temp_file_path] = 0]
          /\ pc' = "dl_loop"
          /\ exc' = exc
       \/ /\ exc' = Exc("OSError", "cannot open file")
          /\ pc' = "except"
          /\ UNCHANGED <<exists, size>>
    /\ UNCHANGED <<variant, request, temp_file_path, upscaled_file_path,
                   original_filename, upscaled_filename, content_length,
                   raw_gcs_url, upscaled_gcs_url, blobs, net_calls,
                   storage_calls, stages, completed, unlink_failed, response,
                   responses, propagated>>

\* one iteration of the loop over response.iter_content: write, count, check
DownloadChunk ==
    /\ pc = "dl_loop"
    /\ \E n \in 1..CHUNK_SIZE :
          \/ /\ size' = [size EXCEPT ![temp_file_path] = @ + n]
             /\ downloaded_size' = downloaded_size + n
             /\ exc' = CheckDownloadedSize(downloaded_size')
             /\ pc' = Goto(exc', "dl_loop")
          \/ /\ exc' = Exc("OSError", "write failed")
             /\ pc' = "except"
             /\ UNCHANGED <<size, downloaded_size>>
    /\ UNCHANGED <<variant, request, temp_file_path, upscaled_file_path, exists,
                   original_filename, upscaled_filename, content_length,
                   raw_gcs_url, upscaled_gcs_url, blobs, net_calls,
                   storage_calls, stages, completed, unlink_failed, response,
                   responses, propagated>>

\* an empty chunk: if chunk: is false, nothing is written or counted
DownloadEmptyChunk ==
    /\ pc = "dl_loop"
    /\ UNCHANGED vars

\* the connection fails while iterating: a RequestException
DownloadBroken ==
    /\ pc = "dl_loop"
    /\ exc' = DownloadFailed
    /\ pc' = "except"
    /\ UNCHANGED <<variant, request, temp_file_path, upscaled_file_path, exists,
                   size, original_filename, upscaled_filename, content_length,
                   downloaded_size, raw_gcs_url, upscaled_gcs_url, blobs,
                   net_calls, storage_calls, stages, completed, unlink_failed,
                   response, responses, propagated>>

\* the stream ends: download_video returns and its locals are gone
DownloadEnd ==
    /\ pc = "dl_loop"
    /\ completed' = Append(completed, "download")
    /\ content_length' = NoHeader
    /\ downloaded_size' = 0
    /\ pc' = "upload_raw"
    /\ UNCHANGED <<variant, request, exc, temp_file_path, upscaled_file_path,
                   exists, size, original_filename, upscaled_filename,
                   raw_gcs_url, upscaled_gcs_url, blobs, net_calls,
                   storage_calls, stages, unlink_failed, response, responses,
                   propagated>>

\* upload_to_gcs(file_path, bucket_name, blob_name): the blob it stores and
\* the locator it returns, or VideoProcessingError for any failure
Upload(stage, file_path, bucket_name, blob_name, next) ==
    /\ stages' = Append(stages, stage)
    /\ storage_calls' = storage_calls + 1
    /\ \/ /\ blobs' = blobs \cup
                 {[bucket |-> bucket_name, name |-> blob_name, size |-> size[file_path]]}
          /\ exc' = exc
       \/ /\ exc' = UploadFailed
          /\ UNCHANGED blobs
    /\ completed' = Done(exc', stage)
    /\ pc' = Goto(exc', next)

\* raw_gcs_url = upload_to_gcs(temp_file_path, RAW_BUCKET_NAME, original_filename)
UploadRaw ==
    /\ pc = "upload_raw"
    /\ Upload("upload_raw", temp_file_path, RAW_BUCKET_NAME, original_filename,
              "transform")
    /\ raw_gcs_url' =
           IF exc'.cls = "none"
           THEN Locator(RAW_BUCKET_NAME, original_filename)
           ELSE raw_gcs_url
    /\ UNCHANGED <<variant, request, temp_file_path, upscaled_file_path, exists,
                   size, original_filename, upscaled_filename, content_length,
                   downloaded_size, upscaled_gcs_url, net_calls, unlink_failed,
                   response, responses, propagated>>

\* upscale_video_ai(temp_file_path, upscaled_file_path): the copy of
\* improved_main.py, the external model runner of main.py
Transform ==
    /\ pc = "transform"
    /\ stages' = Append(stages, "transform")
    /\ \/ /\ \E out \in IF variant = "improved"
                        THEN {size[temp_file_path]}
                        ELSE 0..MaxOut :
                /\ size' = [size EXCEPT ![upscaled_file_path] = out]
                /\ exists' = [exists EXCEPT ![upscaled_file_path] = TRUE]
          /\ exc' = exc
       \/ /\ exc' = IF variant = "improved"
                    THEN Exc("OSError", "copy failed")
                    ELSE Exc("RuntimeError", "model runner failed")
          /\ UNCHANGED <<size, exists>>
    /\ completed' = Done(exc', "transform")
    /\ pc' = Goto(exc', "upload_result")
    /\ UNCHANGED <<variant, request, temp_file_path, upscaled_file_path,
                   original_filename, upscaled_filename, content_length,
                   downloaded_size, raw_gcs_url, upscaled_gcs_url, blobs,
                   net_calls, storage_calls, unlink_failed, response, responses,
                   propagated>>

\* upscaled_gcs_url = upload_to_gcs(upscaled_file_path, UPSCALED_BUCKET_NAME, ...)
UploadResult ==
    /\ pc = "upload_result"
    /\ Upload("upload_result", upscaled_file_path, UPSCALED_BUCKET_NAME,
              upscaled_filename, "notify")
    /\ upscaled_gcs_url' =
           IF exc'.cls = "none"
           THEN Locator(UPSCALED_BUCKET_NAME, upscaled_filename)
           ELSE upscaled_gcs_url
    /\ UNCHANGED <<variant, request, temp_file_path, upscaled_file_path, exists,
                   size, original_filename, upscaled_filename, content_length,
                   downloaded_size, raw_gcs_url, net_calls, unlink_failed,
                   response, responses, propagated>>

\* trigger_next_function(upscaled_gcs_url): it only logs
Notify ==
    /\ pc = "notify"
    /\ stages' = Append(stages, "notify")
    /\ completed' = Append(completed, "notify")
    /\ pc' = "return"
    /\ UNCHANGED <<variant, request, exc, temp_file_path, upscaled_file_path,
                   exists, size, original_filename, upscaled_filename,
                   content_length, downloaded_size, raw_gcs_url,
                   upscaled_gcs_url, blobs, net_calls, storage_calls,
                   unlink_failed, response, responses, propagated>>

\* return jsonify({...}), 200
Return ==
    /\ pc = "return"
    /\ response' = SuccessResponse(raw_gcs_url, upscaled_gcs_url, upscaled_filename)
    /\ responses' = responses + 1
    /\ pc' = "cleanup1"
    /\ UNCHANGED <<variant, request, exc, temp_file_path, upscaled_file_path,
                   exists, size, original_filename, upscaled_filename,
                   content_length, downloaded_size, raw_gcs_url,
                   upscaled_gcs_url, blobs, net_calls, storage_calls, stages,
                   completed, unlink_failed, propagated>>

\* the except clauses: the error response, or the exception goes on
Except ==
    /\ pc = "except"
    /\ IF Caught(exc.cls)
       THEN /\ response' = HandleException(variant, exc)
            /\ responses' = responses + 1
            /\ UNCHANGED propagated
       ELSE /\ propagated' = TRUE
            /\ UNCHANGED <<response, responses>>
    /\ pc' = "cleanup1"
    /\ UNCHANGED <<variant, request, exc, temp_file_path, upscaled_file_path,
                   exists, size, original_filename, upscaled_filename,
                   content_length, downloaded_size, raw_gcs_url,
                   upscaled_gcs_url, blobs, net_calls, storage_calls, stages,
                   completed, unlink_failed>>

\* A finally clause that forgets the transform's output.
CleanupList_OnlyDownload == <<temp_file_path, temp_file_path>>

\* The paths the finally clause goes through, in order.
CleanupList == <<temp_file_path, upscaled_file_path>>

\* one iteration of the finally clause's loop: os.unlink of an existing
\* path, whose OSError is logged and swallowed
Cleanup(i, next) ==
    LET file_path == CleanupList[i]
    IN  /\ IF file_path # "None" /\ exists[file_path]
           THEN \/ /\ exists' = [exists EXCEPT ![file_path] = FALSE]
                   /\ size' = [size EXCEPT ![file_path] = 0]
                   /\ UNCHANGED unlink_failed
                \/ /\ unlink_failed' = unlink_failed \cup {file_path}
                   /\ UNCHANGED <<exists, size>>
           ELSE UNCHANGED <<exists, size, unlink_failed>>
        /\ pc' = next
        /\ UNCHANGED <<variant, request, exc, temp_file_path,
                       upscaled_file_path, original_filename, upscaled_filename,
                       content_length, downloaded_size, raw_gcs_url,
                       upscaled_gcs_url, blobs, net_calls, storage_calls, stages,
                       completed, response, responses, propagated>>

Cleanup1 == pc = "cleanup1" /\ Cleanup(1, "cleanup2")

Cleanup2 == pc = "cleanup2" /\ Cleanup(2, "done")

Next ==
    \/ Validate
    \/ Naming
    \/ MkTemp1
    \/ MkTemp2
    \/ DownloadGet
    \/ DownloadCheckLength
    \/ DownloadOpen
    \/ DownloadChunk
    \/ DownloadEmptyChunk
    \/ DownloadBroken
    \/ DownloadEnd
    \/ UploadRaw
    \/ Transform
    \/ UploadResult
    \/ Notify
    \/ Return
    \/ Except
    \/ Cleanup1
    \/ Cleanup2

Spec == Init /\ [][Next]_vars

(* ------------------------------ claims --------------------------------- *)

\* The scratch paths this invocation reserved.
Reserved == {temp_file_path, upscaled_file_path} \ {"None"}

\* The declared content-length is a number over the cap.
DeclaredTooLarge ==
    /\ content_length.present
    /\ IsNumeric(content_length.s)
    /\ ParseInt(content_length.s) > MAX_FILE_SIZE

TooLargeDeclared == Exc("VideoProcessingError", "File too large")

TooLargeStreamed ==
    Exc("VideoProcessingError", "File size exceeds limit during download")

\* C1, as stated: once the invocation has ended, whatever its outcome, no
\* scratch path it reserved exists on the local filesystem.
C1_NoScratchFileLeft ==
    pc = "done" => \A p \in Reserved : ~exists[p]

\* C1, amended: once the invocation has ended, whatever its outcome, a
\* scratch path it reserved exists only if os.unlink of that path raised
\* OSError, which the finally clause logs and swallows.
C1_ScratchFileLeftOnlyByFailedUnlink ==
    pc = "done" => \A p \in Reserved : exists[p] => p \in unlink_failed

\* C1: an invocation that failed in the middle of the download, with both
\* scratch files reserved and a partial file written, ended with both gone.
C1_Witness ==
    /\ pc = "done"
    /\ Reserved = Paths
    /\ exc = TooLargeStreamed
    /\ \A p \in Paths : ~exists[p]

\* C2, as stated: at every point of a transfer the bytes written to the
\* destination file do not exceed MAX_FILE_SIZE.
C2_WrittenWithinCap ==
    temp_file_path # "None" => size[temp_file_path] <= MAX_FILE_SIZE

\* C3: when the declared content-length is over the cap, download_video
\* raises the too-large error at the check, nothing is written to the
\* destination, no upload is attempted and no blob is stored, and the
\* invocation ends with one error response.
C3_DeclaredTooLargeFailsBeforeWriting ==
    DeclaredTooLarge =>
        /\ size[temp_file_path] = 0
        /\ downloaded_size = 0
        /\ blobs = {}
        /\ storage_calls = 0
        /\ pc # "dl_headers" =>
               /\ exc = TooLargeDeclared
               /\ pc \in {"except", "cleanup1", "cleanup2", "done"}
        /\ pc = "done" =>
               /\ response.kind = "error"
               /\ response.status \in {400, 500}
               /\ responses = 1

\* C3: an invocation whose server declared a length over the cap has ended.
C3_Witness ==
    /\ pc = "done"
    /\ DeclaredTooLarge
    /\ exc = TooLargeDeclared
    /\ response.kind = "error"

\* C4: when the running total of the streamed bytes exceeds the cap,
\* download_video raises the too-large error in that iteration, and no
\* upload, no transform and no stored blob follow; the invocation ends with
\* one error response.
C4_StreamTooLargeAborts ==
    downloaded_size > MAX_FILE_SIZE =>
        /\ exc = TooLargeStreamed
        /\ pc \in {"except", "cleanup1", "cleanup2", "done"}
        /\ stages = <<"validate", "download">>
        /\ completed = <<"validate">>
        /\ blobs = {}
        /\ storage_calls = 0
        /\ pc = "done" =>
               /\ response.kind = "error"
               /\ response.status \in {400, 500}
               /\ responses = 1

\* C4: a transfer went over the cap although the server declared a length
\* within it, and the invocation has ended.
C4_Witness ==
    /\ pc = "done"
    /\ content_length.present
    /\ IsNumeric(content_length.s)
    /\ ParseInt(content_length.s) <= MAX_FILE_SIZE
    /\ downloaded_size > MAX_FILE_SIZE
    /\ response.kind = "error"

\* The request carries a parsed JSON payload without a sourceUrl field.
LacksSourceUrl ==
    /\ request.is_json
    /\ request.body.t # "bad"
    /\ ~(request.body.t = "obj" /\ SOURCE_URL \in request.body.keys)

\* The request carries a JSON object with a sourceUrl field.
HasSourceUrl ==
    /\ request.is_json
    /\ request.body.t = "obj"
    /\ SOURCE_URL \in request.body.keys

\* The value of the sourceUrl field is not a string starting with http://
\* or https://.
NotHttpValue ==
    ~(request.body.val.t = "str" /\ StartsWithHttp(request.body.val.s))

MissingField == "Missing required 'sourceUrl' in request body"

\* C5, as stated: for every JSON payload without the sourceUrl field the
\* handler answers 400 with the message naming the field, and the
\* invocation makes no download and no upload call.
C5_MissingFieldIs400 ==
    LacksSourceUrl =>
        /\ net_calls = 0
        /\ storage_calls = 0
        /\ pc = "done" =>
               /\ response.status = 400
               /\ response.text = MissingField

\* C6, as stated: for every request whose sourceUrl value does not start
\* with http:// or https://, validation ends in the bad-input outcome (a
\* ValueError, answered 400), no scratch file is reserved and download_video
\* is never started.
C6_BadUrlIsValidationFailure ==
    HasSourceUrl /\ NotHttpValue =>
        /\ net_calls = 0
        /\ Reserved = {}
        /\ \A i \in 1..Len(stages) : stages[i] = "validate"
        /\ pc # "validate" => exc.cls = "ValueError"
        /\ pc = "done" => response.status = 400

\* C7, as stated: in both variants the status is 200 exactly when the whole
\* sequence succeeded, 400 for every validation error and every processing
\* error, and 500 only for a fault that is neither.
C7_StatusCodes ==
    pc = "done" =>
        /\ response.status = 200 <=> completed = Order
        /\ exc.cls \in {"ValueError", "VideoProcessingError"} => response.status = 400
        /\ response.status = 500 => exc.cls \notin {"none", "ValueError", "VideoProcessingError"}

\* C7, amended: the status is 200 exactly when the whole sequence succeeded;
\* 400 for every ValueError; for every VideoProcessingError (download
\* failure, size-cap failure, upload failure) 400 in main.py and 500 in
\* improved_main.py; 500 for every other exception.
C7_StatusByExceptionClass ==
    pc = "done" =>
        /\ response.status = 200 <=> completed = Order
        /\ response.status = 200 <=> exc = NoExc
        /\ exc.cls = "ValueError" => response.status = 400
        /\ exc.cls = "VideoProcessingError" =>
               response.status = IF variant = "main" THEN 400 ELSE 500
        /\ exc.cls \notin {"none", "ValueError", "VideoProcessingError"} =>
               response.status = 500

\* C7: improved_main.py answered a failed upload of the result with 500.
C7_Witness ==
    /\ pc = "done"
    /\ variant = "improved"
    /\ exc = UploadFailed
    /\ stages = SubSeq(Order, 1, 5)
    /\ response.status = 500

\* C8: every invocation produces exactly one response, a success or an error
\* payload, no exception leaves the handler, and the steps of the cleanup,
\* failed or not, leave the response as it was determined.
C8_OneResponseNothingPropagates ==
    [][/\ responses' <= 1
       /\ ~propagated'
       /\ pc' \in {"cleanup1", "cleanup2", "done"} =>
              /\ responses' = 1
              /\ response'.kind \in {"success", "error"}
       /\ pc \in {"cleanup1", "cleanup2"} =>
              /\ response' = response
              /\ responses' = responses]_vars

\* C8: an invocation in which the transform raised an unclassified fault and
\* the removal of a scratch file failed has ended with its one response.
C8_Witness ==
    /\ pc = "done"
    /\ exc.cls \in {"RuntimeError", "OSError"}
    /\ unlink_failed # {}
    /\ responses = 1
    /\ response.status = 500

IsPrefix(s, t) == Len(s) <= Len(t) /\ s = SubSeq(t, 1, Len(s))

\* name with "_upscaled" put between its stem and its extension, the
\* extension being empty or a dot followed by characters other than a dot.
IsUpscaledNameOf(filename, name) ==
    \E k \in 0..Len(name) :
        LET ext == SubSeq(name, k + 1, Len(name))
        IN  /\ filename = SubSeq(name, 1, k) \o UPSCALED_TAG \o ext
            /\ ext # <<>> =>
                   /\ ext[1] = "."
                   /\ \A i \in 2..Len(ext) : ext[i] # "."

\* C9: the stages start in the order validate, download, upload-raw,
\* transform, upload-result, notify, each only after every earlier one
\* returned normally; after a failure no stage starts; and the success
\* response is produced only after notify, with the locator of the raw
\* blob, the locator of the upscaled blob and the name <stem>_upscaled<ext>.
C9_StagesInOrder ==
    [][/\ IsPrefix(stages', Order)
       /\ IsPrefix(completed', stages')
       /\ stages' # stages => completed = stages /\ exc = NoExc
       /\ exc # NoExc => stages' = stages /\ completed' = completed
       /\ response'.kind = "success" =>
              /\ completed' = Order
              /\ response'.status = 200
              /\ response'.original_file.bucket = RAW_BUCKET_NAME
              /\ response'.upscaled_file.bucket = UPSCALED_BUCKET_NAME
              /\ response'.upscaled_file.name = response'.filename
              /\ IsUpscaledNameOf(response'.filename, response'.original_file.name)
              /\ \E b \in blobs' :
                     b.bucket = RAW_BUCKET_NAME /\ b.name = response'.original_file.name
              /\ \E b \in blobs' :
                     b.bucket = UPSCALED_BUCKET_NAME /\ b.name = response'.filename]_vars

\* C9: an invocation for a file name with an extension went through all six
\* stages and ended with the success response.
C9_Witness ==
    /\ pc = "done"
    /\ stages = Order
    /\ response.kind = "success"
    /\ response.original_file.name = <<"a", ".", "a">>
    /\ response.filename = <<"a", "_upscaled", ".", "a">>

\* C10, as stated: improved_main.py answers "Invalid request: ..." only for
\* a failure of request validation, that is, only in an invocation that
\* reserved no scratch file and made no network request.
C10_InvalidRequestOnlyFromValidation ==
    variant = "improved" /\ response.prefix = "Invalid request: " =>
        /\ net_calls = 0
        /\ Reserved = {}
        /\ stages = <<"validate">>

====
